---- MODULE Spec2Model ----
(***************************************************************************)
(* The HTTP endpoint set of templates/main.py: a FastAPI application with  *)
(* four endpoints (root, health_check, app_info, chat_endpoint) and two    *)
(* registered exception handlers (404, 500).                               *)
(*                                                                         *)
(* A request is a method, a path (its "/"-separated segments), an optional *)
(* query parameter `message` and an optional JSON body field `message`.    *)
(* A request in flight goes through: received -> (routing) -> running a    *)
(* handler body entry by entry -> done (its response is in out) -> idle.   *)
(* Strings are TLA+ strings, except the values of DEBUG, which are tuples  *)
(* of one-letter strings so that str.lower() is computed letter by letter. *)
(* Optional values are <<>> (absent) or <<v>> (present).                   *)
(***************************************************************************)
EXTENDS Naturals, Sequences, FiniteSets, TLC

VARIABLES env,      \* os.environ: variable name -> optional value
          title,    \* app.title, read from the environment at import time
          clock,    \* the wall clock datetime.utcnow() reads, in seconds
          req,      \* slot -> optional request being served
          stage,    \* slot -> "idle" | "received" | "running" | "done"
          handler,  \* slot -> name of the function whose body is running
          idx,      \* slot -> next entry of the handler's dict literal
          frame,    \* frame id -> the dict under construction
          readAt,   \* slot -> optional time of the request's latest clock read
          faults,   \* slot -> the exceptions raised so far, innermost last
          out       \* slot -> the responses written to the client

vars == <<env, title, clock, req, stage, handler, idx, frame, readAt, faults, out>>

-----------------------------------------------------------------------------
(* Bounds and input sets *)

MaxClock == 2

Slots == {1, 2}

Messages == {"hi", "yo"}

FaultTexts == {"boom"}

Methods == {"GET", "POST"}

AppNames == {"demo"}
Environments == {"production"}
ModelNames == {"gpt"}
DebugValues == { <<"t","r","u","e">>, <<"T","R","U","E">>, <<"T","r","u","e">>,
                 <<"f","a","l","s","e">>, <<"1">>, <<>> }

Opt(S) == {<<>>} \cup { <<v>> : v \in S }

-----------------------------------------------------------------------------
(* Strings, time, environment *)

EmptyDict == [k \in {} |-> ""]

UpperToLower ==
  [A |-> "a", B |-> "b", C |-> "c", D |-> "d", E |-> "e", F |-> "f", G |-> "g",
   H |-> "h", I |-> "i", J |-> "j", K |-> "k", L |-> "l", M |-> "m", N |-> "n",
   O |-> "o", P |-> "p", Q |-> "q", R |-> "r", S |-> "s", T |-> "t", U |-> "u",
   V |-> "v", W |-> "w", X |-> "x", Y |-> "y", Z |-> "z"]

\* a lower() that forgets to fold case
str_lower_identity(s) == s

\* str.lower() on a tuple of letters
str_lower(s) == [i \in DOMAIN s |->
                   IF s[i] \in DOMAIN UpperToLower THEN UpperToLower[s[i]] ELSE s[i]]

TwoDigits(n) == IF n < 10 THEN "0" \o ToString(n) ELSE ToString(n)

\* datetime.isoformat() of the instant `t` seconds after the epoch (t < 60)
isoformat(t) == "1970-01-01T00:00:" \o TwoDigits(t)

\* a timestamp memoised at module level: any value some request in flight
\* has read is handed to the next reader
utcnow_memo ==
  LET S == { s \in DOMAIN readAt : readAt[s] # <<>> }
  IN  IF S = {} THEN clock ELSE readAt[CHOOSE s \in S : TRUE][1]

\* datetime.utcnow()
utcnow == clock

\* FastAPI(title=os.getenv("APP_NAME", "168cap LLM App")), evaluated at import
app_title == IF env["APP_NAME"] = <<>> THEN "168cap LLM App" ELSE env["APP_NAME"][1]

\* the configuration captured once at start-up (app.title) instead of os.environ
os_getenv_startup(name, default) ==
  IF name = "APP_NAME" THEN title
  ELSE IF env[name] = <<>> THEN default ELSE env[name][1]

\* os.getenv(name, default)
os_getenv(name, default) == IF env[name] = <<>> THEN default ELSE env[name][1]

Envs == [APP_NAME : Opt(AppNames), ENVIRONMENT : Opt(Environments),
         DEBUG : Opt(DebugValues), MODEL_NAME : Opt(ModelNames)]

EnvValues(name) ==
  CASE name = "APP_NAME"    -> Opt(AppNames)
    [] name = "ENVIRONMENT" -> Opt(Environments)
    [] name = "DEBUG"       -> Opt(DebugValues)
    [] name = "MODEL_NAME"  -> Opt(ModelNames)

-----------------------------------------------------------------------------
(* Handler bodies: the entries of each returned dict literal, in the order *)
(* Python evaluates them.                                                  *)

Item(k, op, arg, default) == [key |-> k, op |-> op, arg |-> arg, default |-> default]

root ==
  << Item("message", "const", "Welcome to your 168cap LLM App!", ""),
     Item("app_name", "getenv", "APP_NAME", "Unknown"),
     Item("timestamp", "utcnow", "", ""),
     Item("status", "const", "running", "") >>

\* a health check that leaves the environment label out
health_check_without_environment ==
  << Item("status", "const", "healthy", ""),
     Item("timestamp", "utcnow", "", ""),
     Item("app_name", "getenv", "APP_NAME", "Unknown") >>

health_check ==
  << Item("status", "const", "healthy", ""),
     Item("timestamp", "utcnow", "", ""),
     Item("app_name", "getenv", "APP_NAME", "Unknown"),
     Item("environment", "getenv", "ENVIRONMENT", "development") >>

app_info ==
  << Item("app_name", "getenv", "APP_NAME", "Unknown"),
     Item("version", "const", "1.0.0", ""),
     Item("environment", "getenv", "ENVIRONMENT", "development"),
     Item("debug", "debug", "DEBUG", <<"f","a","l","s","e">>),
     Item("timestamp", "utcnow", "", "") >>

chat_endpoint ==
  << Item("response", "echo", "Echo: ", ""),
     Item("timestamp", "utcnow", "", ""),
     Item("model", "getenv", "MODEL_NAME", "unknown") >>

not_found_handler ==
  << Item("error", "const", "Endpoint not found", ""),
     Item("timestamp", "utcnow", "", ""),
     Item("app_name", "getenv", "APP_NAME", "Unknown") >>

\* a 500 handler pasted from the 404 handler with its message left as it was
internal_error_handler_pasted == not_found_handler

internal_error_handler ==
  << Item("error", "const", "Internal server error", ""),
     Item("timestamp", "utcnow", "", ""),
     Item("app_name", "getenv", "APP_NAME", "Unknown") >>

Body(h) ==
  CASE h = "root"                   -> root
    [] h = "health_check"           -> health_check
    [] h = "app_info"               -> app_info
    [] h = "chat_endpoint"          -> chat_endpoint
    [] h = "not_found_handler"      -> not_found_handler
    [] h = "internal_error_handler" -> internal_error_handler

\* JSONResponse(content=...) without status_code=
StatusCodeDefault(h) == 200

\* the status the handler's response carries
StatusCode(h) ==
  CASE h = "not_found_handler"      -> 404
    [] h = "internal_error_handler" -> 500
    [] OTHER                        -> 200

\* the value of one dict entry, for request q
Eval(item, q) ==
  CASE item.op = "const"  -> item.arg
    [] item.op = "getenv" -> os_getenv(item.arg, item.default)
    [] item.op = "utcnow" -> isoformat(utcnow)
    [] item.op = "debug"  -> str_lower(os_getenv(item.arg, item.default)) = <<"t","r","u","e">>
    [] item.op = "echo"   -> item.arg \o q.query[1]

-----------------------------------------------------------------------------
(* Routing.  A path is the tuple of its segments after the leading "/":    *)
(* "/" is <<"">>, "/health" is <<"health">>, "/health/" is <<"health","">>. *)

Route(path, methods, endpoint) ==
  [path |-> path, methods |-> methods, endpoint |-> endpoint]

\* the routes FastAPI(...) installs itself (openapi_url, docs_url,
\* swagger_ui_oauth2_redirect_url and redoc_url keep their defaults)
framework_routes ==
  << Route(<<"openapi.json">>, {"GET", "HEAD"}, "openapi"),
     Route(<<"docs">>, {"GET", "HEAD"}, "swagger_ui_html"),
     Route(<<"docs", "oauth2-redirect">>, {"GET", "HEAD"}, "swagger_ui_redirect"),
     Route(<<"redoc">>, {"GET", "HEAD"}, "redoc_html") >>

\* the routes the decorators add, in source order
app_routes ==
  << Route(<<"">>, {"GET"}, "root"),
     Route(<<"health">>, {"GET"}, "health_check"),
     Route(<<"api", "info">>, {"GET"}, "app_info"),
     Route(<<"api", "chat">>, {"POST"}, "chat_endpoint") >>

routes == framework_routes \o app_routes

Endpoints == {"root", "health_check", "app_info", "chat_endpoint"}

\* Route.matches
Matches(route, method, path) ==
  IF route.path # path THEN "NONE"
  ELSE IF method \in route.methods THEN "FULL" ELSE "PARTIAL"

RECURSIVE rstrip_slash(_)
\* path.rstrip("/")
rstrip_slash(path) ==
  IF path = <<>> THEN <<>>
  ELSE IF path[Len(path)] = "" THEN rstrip_slash(SubSeq(path, 1, Len(path) - 1))
  ELSE path

\* the path Router tries when redirect_slashes is on
redirect_path(path) ==
  IF path[Len(path)] = "" THEN rstrip_slash(path) ELSE Append(path, "")

First(S) == CHOOSE i \in S : \A j \in S : i <= j

\* Router.app: full match, else partial match (wrong method), else the
\* slash redirect, else not found
Router(q) ==
  LET full    == { i \in DOMAIN routes : Matches(routes[i], q.method, q.path) = "FULL" }
      partial == { i \in DOMAIN routes : Matches(routes[i], q.method, q.path) = "PARTIAL" }
      other   == redirect_path(q.path)
  IN  IF full # {} THEN [kind |-> "endpoint", endpoint |-> routes[First(full)].endpoint]
      ELSE IF partial # {} THEN [kind |-> "http_exception", status |-> 405]
      ELSE IF /\ q.path # <<"">>
              /\ \E i \in DOMAIN routes : Matches(routes[i], q.method, other) # "NONE"
           THEN [kind |-> "redirect", location |-> other]
      ELSE [kind |-> "http_exception", status |-> 404]

\* the handlers registered by status code with @app.exception_handler and
\* consulted for an HTTPException (500 goes to the server-error layer instead)
status_handlers == [s \in {404} |-> "not_found_handler"]

\* the handler the server-error layer runs for an exception nobody caught
error_handler == "internal_error_handler"

-----------------------------------------------------------------------------
(* Responses *)

Response(status, media, body) == [status |-> status, media |-> media, body |-> body]

http_phrase(status) ==
  CASE status = 404 -> "Not Found"
    [] status = 405 -> "Method Not Allowed"
    [] OTHER        -> "Error"

\* the framework's handler for an HTTPException no status handler takes
http_exception_handler(status, detail) ==
  Response(status, "json", [detail |-> detail])

\* except Exception as e: the message drops str(e)
chat_failure_generic(text) ==
  http_exception_handler(500, "Chat processing failed")

\* except Exception as e: raise HTTPException(500, "Chat processing failed: " + str(e))
chat_failure(text) ==
  http_exception_handler(500, "Chat processing failed: " \o text)

\* the framework's answer to a request that lacks a required parameter
request_validation_error(where, name) ==
  Response(422, "json", [detail |-> << [loc |-> <<where, name>>] >>])

\* the framework's own endpoints
framework_endpoint(e) ==
  CASE e = "openapi" ->
         Response(200, "json",
                  [info |-> [title |-> title,
                             description |-> "LLM application running on 168cap infrastructure",
                             version |-> "1.0.0"]])
    [] e = "swagger_ui_html" ->
         Response(200, "html", [title |-> title \o " - Swagger UI"])
    [] e = "swagger_ui_redirect" ->
         Response(200, "html", [title |-> "Swagger UI: OAuth2 Redirect"])
    [] e = "redoc_html" ->
         Response(200, "html", [title |-> title \o " - ReDoc"])

\* the server's last resort when the application raises before responding
server_500 == Response(500, "text", [text |-> "Internal Server Error"])

RedirectResponse(location) == Response(307, "none", [location |-> location])

Responds(response) == [kind |-> "respond", response |-> response]
Calls(h) == [kind |-> "call", handler |-> h]

\* an HTTPException(status, detail) reaches the exception layer
HandleHTTPException(status, detail) ==
  IF status \in DOMAIN status_handlers
  THEN Calls(status_handlers[status])
  ELSE Responds(http_exception_handler(status, detail))

\* what the application does first with request q
Entry(q) ==
  LET d == Router(q)
  IN  CASE d.kind = "redirect" -> Responds(RedirectResponse(d.location))
        [] d.kind = "http_exception" -> HandleHTTPException(d.status, http_phrase(d.status))
        [] d.kind = "endpoint" /\ d.endpoint \notin Endpoints ->
             Responds(framework_endpoint(d.endpoint))
        [] d.kind = "endpoint" /\ d.endpoint = "chat_endpoint" /\ q.query = <<>> ->
             \* message: str is a required query parameter
             Responds(request_validation_error("query", "message"))
        [] OTHER -> Calls(d.endpoint)

-----------------------------------------------------------------------------
(* State *)

Paths ==
  { <<"">>, <<"health">>, <<"api", "info">>, <<"api", "chat">>,
    <<"openapi.json">>, <<"docs">>, <<"docs", "oauth2-redirect">>, <<"redoc">>,
    <<"health", "">>, <<"health", "", "">>, <<"api", "chat", "">>, <<"docs", "">>,
    <<"does-not-exist">>, <<"api">>, <<"", "">> }

\* a message is sent only with POST /api/chat; elsewhere nothing reads one
Requests ==
  { [method |-> m, path |-> p, query |-> <<>>, body |-> <<>>] : m \in Methods, p \in Paths }
  \cup
  { [method |-> "POST", path |-> <<"api", "chat">>, query |-> x, body |-> y] :
      x \in Opt(Messages), y \in Opt(Messages) }

\* one module-level dict shared by every call
FrameShared(r) == 1

\* every call of a handler builds its dict in a frame of its own
Frame(r) == r

Idle(r) ==
  /\ req' = [req EXCEPT ![r] = <<>>]
  /\ stage' = [stage EXCEPT ![r] = "idle"]
  /\ readAt' = [readAt EXCEPT ![r] = <<>>]
  /\ faults' = [faults EXCEPT ![r] = <<>>]
  /\ out' = [out EXCEPT ![r] = <<>>]

InitSlots ==
  /\ clock = 0
  /\ req = [r \in Slots |-> <<>>]
  /\ stage = [r \in Slots |-> "idle"]
  /\ handler = [r \in Slots |-> ""]
  /\ idx = [r \in Slots |-> 0]
  /\ frame = [r \in Slots |-> EmptyDict]
  /\ readAt = [r \in Slots |-> <<>>]
  /\ faults = [r \in Slots |-> <<>>]
  /\ out = [r \in Slots |-> <<>>]

\* the process starts in any environment; FastAPI(title=os.getenv(...)) runs once
Init ==
  /\ env \in Envs
  /\ title = app_title
  /\ InitSlots

-----------------------------------------------------------------------------
(* Actions *)

\* the server accepts request q on slot r
Arrive(r, q) ==
  /\ stage[r] = "idle"
  /\ req' = [req EXCEPT ![r] = <<q>>]
  /\ stage' = [stage EXCEPT ![r] = "received"]
  /\ UNCHANGED <<env, title, clock, handler, idx, frame, readAt, faults, out>>

\* the response is written and the request is over
Respond(r, response) ==
  /\ out' = [out EXCEPT ![r] = Append(@, response)]
  /\ stage' = [stage EXCEPT ![r] = "done"]
  /\ handler' = [handler EXCEPT ![r] = ""]
  /\ idx' = [idx EXCEPT ![r] = 0]

\* handler bodies run under one process-wide lock
CallLocked(r, h) ==
  /\ \A s \in Slots \ {r} : stage[s] # "running"
  /\ handler' = [handler EXCEPT ![r] = h]
  /\ idx' = [idx EXCEPT ![r] = 1]
  /\ frame' = [frame EXCEPT ![r] = EmptyDict]
  /\ stage' = [stage EXCEPT ![r] = "running"]
  /\ UNCHANGED out

\* handler h starts running for the request on slot r
Call(r, h) ==
  /\ handler' = [handler EXCEPT ![r] = h]
  /\ idx' = [idx EXCEPT ![r] = 1]
  /\ frame' = [frame EXCEPT ![Frame(r)] = EmptyDict]
  /\ stage' = [stage EXCEPT ![r] = "running"]
  /\ UNCHANGED out

\* the router takes the request: it is answered by the framework at once,
\* or a handler of the application is entered
Dispatch(r) ==
  /\ stage[r] = "received"
  /\ LET e == Entry(req[r][1])
     IN  IF e.kind = "respond"
         THEN Respond(r, e.response) /\ UNCHANGED frame
         ELSE Call(r, e.handler)
  /\ UNCHANGED <<env, title, clock, req, readAt, faults>>

\* the running handler evaluates the next entry of its dict; after the last
\* entry it returns and the dict becomes the response
Step(r) ==
  /\ stage[r] = "running"
  /\ LET h    == handler[r]
         item == Body(h)[idx[r]]
         dict == (item.key :> Eval(item, req[r][1])) @@ frame[Frame(r)]
     IN  IF idx[r] < Len(Body(h))
         THEN /\ frame' = [frame EXCEPT ![Frame(r)] = dict]
              /\ idx' = [idx EXCEPT ![r] = @ + 1]
              /\ UNCHANGED <<stage, handler, out>>
         ELSE /\ frame' = [frame EXCEPT ![Frame(r)] = EmptyDict]
              /\ Respond(r, Response(StatusCode(h), "json", dict))
  /\ readAt' = IF Body(handler[r])[idx[r]].op = "utcnow"
               THEN [readAt EXCEPT ![r] = <<clock>>] ELSE readAt
  /\ UNCHANGED <<env, title, clock, req, faults>>

\* the running handler raises an exception whose str() is text
Raise(r, text) ==
  /\ stage[r] = "running"
  /\ faults' = [faults EXCEPT ![r] = Append(@, [handler |-> handler[r], text |-> text])]
  /\ CASE handler[r] = "chat_endpoint" ->
            \* except Exception as e: raise HTTPException(500, ...)
            /\ frame' = [frame EXCEPT ![Frame(r)] = EmptyDict]
            /\ Respond(r, chat_failure(text))
       [] handler[r] = error_handler ->
            /\ frame' = [frame EXCEPT ![Frame(r)] = EmptyDict]
            /\ Respond(r, server_500)
       [] OTHER -> Call(r, error_handler)
  /\ UNCHANGED <<env, title, clock, req, readAt>>

\* the connection is finished; the slot takes the next request
Release(r) ==
  /\ stage[r] = "done"
  /\ Idle(r)
  /\ UNCHANGED <<env, title, clock, handler, idx, frame>>

\* time passes
Tick ==
  /\ clock < MaxClock
  /\ clock' = clock + 1
  /\ UNCHANGED <<env, title, req, stage, handler, idx, frame, readAt, faults, out>>

\* os.environ changes; nothing else runs while a handler is between its
\* first entry and its response
SetEnv(name, v) ==
  /\ \A r \in Slots : stage[r] \in {"idle", "received"}
  /\ v \in EnvValues(name)
  /\ v # env[name]
  /\ env' = [env EXCEPT ![name] = v]
  /\ UNCHANGED <<title, clock, req, stage, handler, idx, frame, readAt, faults, out>>

-----------------------------------------------------------------------------
(* Specifications *)

Worker == CHOOSE r \in Slots : \A s \in Slots : r <= s

\* one request at a time, in an environment that changes between requests
ArriveSerial(q) ==
  /\ \A s \in Slots : stage[s] = "idle"
  /\ Arrive(Worker, q)

Next ==
  \/ \E q \in Requests : ArriveSerial(q)
  \/ \E r \in Slots : Dispatch(r)
  \/ \E r \in Slots : Step(r)
  \/ \E r \in Slots, text \in FaultTexts : Raise(r, text)
  \/ \E r \in Slots : Release(r)
  \/ Tick
  \/ \E name \in DOMAIN env : \E v \in EnvValues(name) : SetEnv(name, v)

Spec == Init /\ [][Next]_vars

\* two requests in flight at once, in an environment that stays as it is
ConcEnvs ==
  { [APP_NAME |-> <<>>, ENVIRONMENT |-> <<>>, DEBUG |-> <<>>, MODEL_NAME |-> <<>>],
    [APP_NAME |-> <<"demo">>, ENVIRONMENT |-> <<"production">>,
     DEBUG |-> << <<"T","R","U","E">> >>, MODEL_NAME |-> <<"gpt">>] }

ConcRequests ==
  { q \in Requests :
      /\ q.path \in { <<"">>, <<"health">>, <<"api", "info">>, <<"api", "chat">>,
                      <<"docs">>, <<"does-not-exist">> }
      /\ q.body = <<>>
      /\ q.query \in {<<>>, <<"hi">>} }

InitConc ==
  /\ env \in ConcEnvs
  /\ title = app_title
  /\ InitSlots

ArriveConc(r, q) == Arrive(r, q)

NextConc ==
  \/ \E r \in Slots, q \in ConcRequests : ArriveConc(r, q)
  \/ \E r \in Slots : Dispatch(r)
  \/ \E r \in Slots : Step(r)
  \/ \E r \in Slots, text \in FaultTexts : Raise(r, text)
  \/ \E r \in Slots : Release(r)
  \/ Tick

\* what the event loop runs for a request it has accepted
Progress(r) == Dispatch(r) \/ Step(r) \/ Release(r)

ConcSpec ==
  /\ InitConc
  /\ [][NextConc]_vars
  /\ \A r \in Slots : WF_vars(Progress(r))

-----------------------------------------------------------------------------
(* Properties *)

Done(r) == stage[r] = "done"

\* the request on slot r and the response it was given
Q(r) == req[r][1]
R(r) == out[r][Len(out[r])]

NoFault(r) == faults[r] = <<>>

ChatPath == <<"api", "chat">>

ApplicationPaths == { <<"">>, <<"health">>, <<"api", "info">>, ChatPath }

\* the table rows: the keys each route's body must carry
RowKeys(path) ==
  CASE path = <<"">>            -> {"message", "app_name", "timestamp", "status"}
    [] path = <<"health">>      -> {"status", "timestamp", "app_name", "environment"}
    [] path = <<"api", "info">> -> {"app_name", "version", "environment", "debug", "timestamp"}
    [] path = ChatPath          -> {"response", "timestamp", "model"}

\* the table rows: the entries whose value the table fixes
RowFixed(path, body) ==
  CASE path = <<"">>            -> body["status"] = "running"
    [] path = <<"health">>      -> body["status"] = "healthy"
    [] path = <<"api", "info">> -> body["version"] = "1.0.0"
    [] path = ChatPath          -> TRUE

\* a request for a route of the table, carrying the message where the chat
\* endpoint reads it
Supported(q) ==
  \/ q.method = "GET" /\ q.path \in ApplicationPaths \ {ChatPath}
  \/ q.method = "POST" /\ q.path = ChatPath /\ q.query # <<>>

\* C1: every supported route, in every environment, answers 200 with a body
\* that carries every key of its table row (and the row's fixed values),
\* whenever the handler runs to its return.
C1_RouteTable ==
  \A r \in Slots :
    Done(r) /\ Supported(Q(r)) /\ NoFault(r) =>
      /\ R(r).status = 200
      /\ R(r).media = "json"
      /\ RowKeys(Q(r).path) \subseteq DOMAIN R(r).body
      /\ RowFixed(Q(r).path, R(r).body)

C1_Witness ==
  \E r \in Slots :
    /\ Done(r) /\ NoFault(r)
    /\ Q(r).method = "GET" /\ Q(r).path = <<"health">>
    /\ env["ENVIRONMENT"] = <<"production">>

\* C2 (as claimed): a POST /api/chat whose JSON body is {"message": m} is
\* answered 200 with response = "Echo: " + m.
C2_BodyMessage ==
  \A r \in Slots :
    Done(r) /\ NoFault(r) /\ Q(r).method = "POST" /\ Q(r).path = ChatPath
            /\ Q(r).body # <<>> =>
      /\ R(r).status = 200
      /\ "response" \in DOMAIN R(r).body
      /\ R(r).body["response"] = "Echo: " \o Q(r).body[1]

NotFoundEnvelope(resp) ==
  /\ resp.status = 404
  /\ resp.media = "json"
  /\ DOMAIN resp.body = {"error", "timestamp", "app_name"}
  /\ resp.body["error"] = "Endpoint not found"

\* C3 (as claimed): every request for a path outside the four routes of the
\* table is answered 404 with the fixed envelope.
C3_OnlyTableRoutes ==
  \A r \in Slots :
    Done(r) /\ NoFault(r) /\ Q(r).path \notin ApplicationPaths =>
      NotFoundEnvelope(R(r))

DocumentationPaths ==
  { <<"openapi.json">>, <<"docs">>, <<"docs", "oauth2-redirect">>, <<"redoc">> }

\* the path with all its trailing slashes removed, or with one added
SlashTwin(path) ==
  IF path[Len(path)] = ""
  THEN LET keep == { k \in 1..Len(path) : path[k] # "" }
       IN  SubSeq(path, 1, IF keep = {} THEN 0 ELSE CHOOSE k \in keep : \A j \in keep : j <= k)
  ELSE path \o <<"">>

\* a path that is no route but whose twin is one
SlashVariant(path) ==
  /\ path # <<"">>
  /\ SlashTwin(path) \in ApplicationPaths \cup DocumentationPaths

\* C3 (amended): a GET or POST request for a path that is none of the four
\* application routes, none of the four documentation routes the framework
\* installs, and no trailing-slash variant of one of them, is answered 404
\* with the fixed envelope; the documentation routes answer GET with 200 and
\* a trailing-slash variant is answered with a 307 redirect to its twin.
C3_Amended ==
  \A r \in Slots :
    Done(r) /\ NoFault(r) =>
      /\ Q(r).path \notin ApplicationPaths \cup DocumentationPaths
           /\ ~SlashVariant(Q(r).path) => NotFoundEnvelope(R(r))
      /\ Q(r).path \in DocumentationPaths /\ Q(r).method = "GET" => R(r).status = 200
      /\ Q(r).path \notin ApplicationPaths \cup DocumentationPaths
           /\ SlashVariant(Q(r).path) =>
             R(r).status = 307 /\ R(r).body["location"] = SlashTwin(Q(r).path)

C3_Witness ==
  \E r \in Slots :
    /\ Done(r) /\ NoFault(r)
    /\ Q(r).path = <<"does-not-exist">>
    /\ env["APP_NAME"] = <<"demo">>

ErrorEnvelope(resp) ==
  /\ resp.status = 500
  /\ resp.media = "json"
  /\ DOMAIN resp.body = {"error", "timestamp", "app_name"}
  /\ resp.body["error"] = "Internal server error"
  /\ resp.body["timestamp"] \in { isoformat(t) : t \in 0..clock }
  /\ resp.body["app_name"] = IF env["APP_NAME"] = <<>> THEN "Unknown" ELSE env["APP_NAME"][1]

\* C4 (as claimed): whenever a handler has raised, the caller gets status 500
\* and the fixed envelope {error, timestamp, app_name}, which carries nothing
\* of the fault.
C4_AnyFaultEnvelope ==
  \A r \in Slots : Done(r) /\ ~NoFault(r) => ErrorEnvelope(R(r))

\* C4 (amended): a fault raised while root, health_check, app_info or
\* not_found_handler executes is answered 500 with the fixed envelope
\* {error="Internal server error", timestamp, app_name}, none of whose values
\* comes from the fault, as long as internal_error_handler itself returns; a
\* fault inside chat_endpoint is answered by its own 500 message instead, and
\* a fault inside internal_error_handler by the server's plain-text 500.
C4_Amended ==
  \A r \in Slots :
    Done(r) /\ ~NoFault(r) =>
      LET first == faults[r][1]
          last  == faults[r][Len(faults[r])]
      IN  /\ first.handler # "chat_endpoint" /\ last.handler # "internal_error_handler"
               => ErrorEnvelope(R(r))
          /\ first.handler = "chat_endpoint"
               => R(r).status = 500 /\ DOMAIN R(r).body = {"detail"}
          /\ last.handler = "internal_error_handler"
               => R(r).status = 500 /\ R(r).media = "text"

C4_Witness ==
  \E r \in Slots :
    /\ Done(r)
    /\ Len(faults[r]) = 1
    /\ faults[r][1].handler = "health_check"
    /\ R(r).status = 500

\* C5: a response's app_name, environment and model are the values APP_NAME,
\* ENVIRONMENT and MODEL_NAME have when the request is handled, or the
\* defaults "Unknown", "development", "unknown" when the variable is unset;
\* what the environment held at start-up or at an earlier request is not used.
C5_FreshConfiguration ==
  \A r \in Slots :
    Done(r) /\ R(r).media = "json" /\ R(r).status \in {200, 404, 500} =>
      LET body == R(r).body
          Now(name, default) == IF env[name] = <<>> THEN default ELSE env[name][1]
      IN  /\ "app_name" \in DOMAIN body => body["app_name"] = Now("APP_NAME", "Unknown")
          /\ "environment" \in DOMAIN body
               => body["environment"] = Now("ENVIRONMENT", "development")
          /\ "model" \in DOMAIN body => body["model"] = Now("MODEL_NAME", "unknown")

\* a response served after APP_NAME was set in a process started without it
C5_Witness ==
  \E r \in Slots :
    /\ Done(r) /\ NoFault(r)
    /\ Q(r).method = "GET" /\ Q(r).path = <<"">>
    /\ title = "168cap LLM App"
    /\ env["APP_NAME"] = <<"demo">>

IsTrueIgnoringCase(s) ==
  /\ Len(s) = 4
  /\ s[1] \in {"t", "T"} /\ s[2] \in {"r", "R"} /\ s[3] \in {"u", "U"} /\ s[4] \in {"e", "E"}

\* C6: GET /api/info answers debug = true exactly when DEBUG is set to "true"
\* in any letter case, and debug = false for any other value or when unset.
C6_DebugFlag ==
  \A r \in Slots :
    Done(r) /\ NoFault(r) /\ Q(r).method = "GET" /\ Q(r).path = <<"api", "info">> =>
      R(r).body["debug"] = (env["DEBUG"] # <<>> /\ IsTrueIgnoringCase(env["DEBUG"][1]))

C6_Witness ==
  \E r \in Slots :
    /\ Done(r) /\ NoFault(r)
    /\ Q(r).method = "GET" /\ Q(r).path = <<"api", "info">>
    /\ env["DEBUG"] = << <<"T", "R", "U", "E">> >>

\* C9: when a step of the chat handler raises, POST /api/chat answers 500
\* with the message "Chat processing failed: <text>", <text> being the text of
\* what was raised, and not with a 200 echo payload.
C9_ChatFailure ==
  \A r \in Slots :
    Done(r) /\ ~NoFault(r) /\ faults[r][1].handler = "chat_endpoint" =>
      /\ R(r).status = 500
      /\ R(r).body = [detail |-> "Chat processing failed: " \o faults[r][1].text]
      /\ Len(out[r]) = 1

C9_Witness ==
  \E r \in Slots :
    /\ Done(r)
    /\ Q(r).path = ChatPath /\ Q(r).query = <<"hi">>
    /\ Len(faults[r]) = 1 /\ faults[r][1].handler = "chat_endpoint"

\* the dict handler h returns for request q when its clock read gives t
Returned(h, q, t) ==
  LET body == Body(h)
      at(k) == body[CHOOSE i \in DOMAIN body : body[i].key = k]
  IN  Response(StatusCode(h), "json",
               [k \in { body[i].key : i \in DOMAIN body } |->
                  IF at(k).op = "utcnow" THEN isoformat(t[1]) ELSE Eval(at(k), q)])

\* the response request q gets when nothing else runs: fs are the faults
\* raised while it is handled, t its own (latest) clock read
Alone(q, fs, t) ==
  LET e == Entry(q)
  IN  IF e.kind = "respond" THEN e.response
      ELSE IF fs = <<>> THEN Returned(e.handler, q, t)
      ELSE IF fs[1].handler = "chat_endpoint" THEN chat_failure(fs[1].text)
      ELSE IF fs[Len(fs)].handler = error_handler THEN server_500
      ELSE Returned(error_handler, q, t)

SlotState(r) ==
  <<req[r], stage[r], handler[r], idx[r], frame[r], readAt[r], faults[r], out[r]>>

C7_OwnResponse ==
  \A r \in Slots : Done(r) => out[r] = << Alone(Q(r), faults[r], readAt[r]) >>

C7_Isolated ==
  \A r, s \in Slots :
    r # s /\ SlotState(r)' # SlotState(r) => SlotState(s)' = SlotState(s)

\* C7: two requests in flight never interfere: under every interleaving of
\* their steps each gets exactly the response (status, body, timestamp of its
\* own clock read) it would get alone in the same environment, and no step of
\* one request changes anything the other request holds.
C7_NoInterference == []C7_OwnResponse /\ [][C7_Isolated]_vars

\* one request has been answered while the other is in the middle of its
\* handler, and they read the clock at different times
C7_Witness ==
  \E r, s \in Slots :
    /\ Done(r) /\ stage[s] = "running" /\ idx[s] > 1
    /\ readAt[r] # <<>> /\ readAt[s] # <<>> /\ readAt[r] # readAt[s]

InFlight(r) == stage[r] \in {"received", "running"}

\* C8: a request handed to the application always completes: it yields its
\* response whatever the other request does, it yields exactly one, and at no
\* point does it wait (its next step is enabled as long as it is in flight).
C8_AlwaysCompletes ==
  /\ \A r \in Slots : InFlight(r) ~> Done(r)
  /\ [](\A r \in Slots : /\ Done(r) => Len(out[r]) = 1
                         /\ InFlight(r) => out[r] = <<>> /\ ENABLED Progress(r))

C8_Witness ==
  \E r, s \in Slots :
    /\ r # s
    /\ Done(r) /\ Len(faults[r]) = 2
    /\ stage[s] = "running"

Strip(body) == [k \in DOMAIN body \ {"timestamp"} |-> body[k]]

\* C10: in a fixed environment the same request (raising the same faults)
\* gets the same status and the same body apart from timestamp whatever was
\* served before it, and a request that is over leaves nothing behind: its
\* slot is as it was at start-up and the configuration is untouched.
C10_Stateless ==
  /\ \A r, s \in Slots :
       Done(r) /\ Done(s) /\ req[r] = req[s] /\ faults[r] = faults[s] =>
         /\ R(r).status = R(s).status
         /\ R(r).media = R(s).media
         /\ Strip(R(r).body) = Strip(R(s).body)
  /\ \A r \in Slots :
       stage[r] = "idle" =>
         /\ SlotState(r) = <<<<>>, "idle", "", 0, EmptyDict, <<>>, <<>>, <<>>>>
  /\ title = app_title

\* the same request answered twice, at different times
C10_Witness ==
  \E r, s \in Slots :
    /\ r # s /\ Done(r) /\ Done(s)
    /\ req[r] = req[s] /\ faults[r] = faults[s]
    /\ Q(r).path = <<"health">> /\ Q(r).method = "GET"
    /\ readAt[r] # readAt[s]

====
